---- MODULE Spec2Model ----
(***************************************************************************)
(* Homogeneous-coordinate affine transformations of the repository         *)
(* computer-graphics-basics: translation, scaling, axis rotation and       *)
(* reflection in 2D (3-vectors, 3x3 matrices) and 3D (4-vectors, 4x4       *)
(* matrices).                                                              *)
(*                                                                         *)
(* Numbers are modelled as mathematical integers in a small range, where   *)
(* numpy's int64/float64 arithmetic is exact.  Angles are multiples of 90  *)
(* degrees, whose cosine and sine are taken as the exact values -1, 0, 1   *)
(* (numpy carries a residue of about 1e-16 there).                         *)
(***************************************************************************)
EXTENDS Integers, Sequences, FiniteSets, TLC

\* ------------------------------------------------------------------ bounds
MaxCoord == 1
MaxT == 2
MaxQuarter == 2
MaxOps == 2

Coord == (0 - MaxCoord)..MaxCoord
Param == (0 - MaxT)..MaxT
Degrees == {90 * k : k \in (0 - MaxQuarter)..MaxQuarter}

\* homogeneous points (w = 1) and directions (w = 0)
Points2 == {<<x, y, w>> : x \in Coord, y \in Coord, w \in {0, 1}}
Points3 == {<<x, y, z, w>> : x \in Coord, y \in Coord, z \in Coord, w \in {0, 1}}

\* axis, plane and line names handed to the reflection functions: the
\* recognised ones in several spellings, and unrecognised ones
AxisNames == {"x", "X", "y", "Y", "z", "xy"}
LineNames == {"y=x", "Y=X", "y=-x", "Y=-X", "x=y", "y"}
PlaneNames == {"xy", "XY", "Xy", "xz", "XZ", "yz", "yZ", "zx", "x", ""}
RotAxes == {"X", "Y", "Z", "x", "W"}

\* parameters of the calls of a pipeline: the vectors, factors and angles of
\* the scripts' own examples, a scaling that collapses an axis, and the
\* opposite turns
PipeTranslations2 == {<<1, 0 - 1>>, <<5, 5>>, <<2, 0 - 3>>}
PipeTranslations3 == {<<3, 2, 0 - 1>>, <<1, 1, 1>>, <<0 - 3, 4, 5>>}
PipeScalings == {<<0 - 1, 2, 1>>, <<2, 1, 0>>}
PipeDegrees == {90, 0 - 90, 180, 0 - 180}
PipeAxes == {"x", "y", "Y"}
PipeLines == {"y=x", "y=-x"}
PipePlanes == {"xy", "xz", "yz"}

\* ------------------------------------------------------- numpy primitives
\* str.lower() on the names above
lower(s) ==
  CASE s = "X" -> "x"
    [] s = "Y" -> "y"
    [] s = "Y=X" -> "y=x"
    [] s = "Y=-X" -> "y=-x"
    [] s = "XY" -> "xy"
    [] s = "Xy" -> "xy"
    [] s = "XZ" -> "xz"
    [] s = "yZ" -> "yz"
    [] s = "YZ" -> "yz"
    [] OTHER -> s

RECURSIVE DotUpTo(_, _, _)
DotUpTo(row, v, n) ==
  IF n = 0 THEN 0 ELSE DotUpTo(row, v, n - 1) + row[n] * v[n]

\* column j of a matrix
RECURSIVE ColumnUpTo(_, _, _)
ColumnUpTo(m, j, n) ==
  IF n = 0 THEN <<>> ELSE Append(ColumnUpTo(m, j, n - 1), m[n][j])
Column(m, j) == ColumnUpTo(m, j, Len(m))

\* the first n components of matrix @ point, and of its transpose @ point
RECURSIVE RowsTimes(_, _, _)
RowsTimes(m, v, n) ==
  IF n = 0 THEN <<>> ELSE Append(RowsTimes(m, v, n - 1), DotUpTo(m[n], v, Len(v)))

RECURSIVE ColumnsTimes(_, _, _)
ColumnsTimes(m, v, n) ==
  IF n = 0 THEN <<>>
  ELSE Append(ColumnsTimes(m, v, n - 1), DotUpTo(Column(m, n), v, Len(v)))

\* matrix @ point : the matrix-vector product
MatVecT(m, v) == ColumnsTimes(m, v, Len(m))
MatVec(m, v) == RowsTimes(m, v, Len(m))

\* np.eye(n)
eye(n) == [i \in 1..n |-> [j \in 1..n |-> IF i = j THEN 1 ELSE 0]]

\* np.cos(np.radians(degrees)), np.sin(np.radians(degrees))
cos(degrees) ==
  CASE degrees % 360 = 0 -> 1
    [] degrees % 360 = 90 -> 0
    [] degrees % 360 = 180 -> 0 - 1
    [] degrees % 360 = 270 -> 0

sin(degrees) ==
  CASE degrees % 360 = 0 -> 0
    [] degrees % 360 = 90 -> 1
    [] degrees % 360 = 180 -> 0
    [] degrees % 360 = 270 -> 0 - 1

\* what a call produced: a returned vector, or the exception it raised
Returned(v) == [outcome |-> "returned", value |-> v]
Raised(e) == [outcome |-> e, value |-> <<>>]

\* ------------------------------------------------------------ translation
\* tx written one column to the left, as a shear
translation_matrix_2d_slip(tx, ty) ==
  << <<1, tx, 0>>,
     <<0, 1, ty>>,
     <<0, 0, 1>> >>
translation_matrix_2d(tx, ty) ==
  << <<1, 0, tx>>,
     <<0, 1, ty>>,
     <<0, 0, 1>> >>

translate_2d_rowbug(point, tx, ty) ==
  MatVec(<< <<1, 0, 0>>, <<0, 1, 0>>, <<tx, ty, 1>> >>, point)
translate_2d(point, tx, ty) == MatVec(translation_matrix_2d(tx, ty), point)

translation_matrix_3d(tx, ty, tz) ==
  << <<1, 0, 0, tx>>,
     <<0, 1, 0, ty>>,
     <<0, 0, 1, tz>>,
     <<0, 0, 0, 1>> >>

translate_3d_rowbug(point, tx, ty, tz) ==
  MatVec(<< <<1, 0, 0, 0>>, <<0, 1, 0, 0>>, <<0, 0, 1, 0>>, <<tx, ty, tz, 1>> >>, point)
translate_3d(point, tx, ty, tz) == MatVec(translation_matrix_3d(tx, ty, tz), point)

\* ---------------------------------------------------------------- scaling
scaling_matrix(sx, sy, sz) ==
  << <<sx, 0, 0, 0>>,
     <<0, sy, 0, 0>>,
     <<0, 0, sz, 0>>,
     <<0, 0, 0, 1>> >>

scale_3d_abs(point, sx, sy, sz) ==
  MatVec(scaling_matrix(IF sx < 0 THEN 0 - sx ELSE sx, sy, sz), point)
scale_3d(point, sx, sy, sz) == MatVec(scaling_matrix(sx, sy, sz), point)

\* --------------------------------------------------------------- rotation
rotation_matrix_z(degrees) ==
  LET c == cos(degrees)
      s == sin(degrees)
  IN  << <<c, 0 - s, 0, 0>>,
         <<s, c, 0, 0>>,
         <<0, 0, 1, 0>>,
         <<0, 0, 0, 1>> >>

\* the X rotation with the minus sign of its sine entry left out
rotation_matrix_x_nosign(degrees) ==
  LET c == cos(degrees)
      s == sin(degrees)
  IN  << <<1, 0, 0, 0>>,
         <<0, c, s, 0>>,
         <<0, s, c, 0>>,
         <<0, 0, 0, 1>> >>
rotation_matrix_x(degrees) ==
  LET c == cos(degrees)
      s == sin(degrees)
  IN  << <<1, 0, 0, 0>>,
         <<0, c, 0 - s, 0>>,
         <<0, s, c, 0>>,
         <<0, 0, 0, 1>> >>

rotation_matrix_y(degrees) ==
  LET c == cos(degrees)
      s == sin(degrees)
  IN  << <<c, 0, s, 0>>,
         <<0, 1, 0, 0>>,
         <<0 - s, 0, c, 0>>,
         <<0, 0, 0, 1>> >>

rotate_3d_z(point, degrees) == MatVec(rotation_matrix_z(degrees), point)
rotate_3d_x(point, degrees) == MatVec(rotation_matrix_x(degrees), point)

\* the Y rotation written with the sign pattern of X and Z
rotate_3d_y_likexz(point, degrees) ==
  LET c == cos(degrees)
      s == sin(degrees)
  IN  MatVec(<< <<c, 0, 0 - s, 0>>, <<0, 1, 0, 0>>, <<s, 0, c, 0>>, <<0, 0, 0, 1>> >>, point)
rotate_3d_y(point, degrees) == MatVec(rotation_matrix_y(degrees), point)

\* ------------------------------------------------------------- reflection
\* a local the function never assigned
Unbound == <<>>

\* `matrix` is assigned in the two branches only: with any other axis the
\* return statement reads an unbound local
reflection_matrix_2d(axis) ==
  IF lower(axis) = "x" THEN << <<1, 0, 0>>, <<0, 0 - 1, 0>>, <<0, 0, 1>> >>
  ELSE IF lower(axis) = "y" THEN << <<0 - 1, 0, 0>>, <<0, 1, 0>>, <<0, 0, 1>> >>
  ELSE Unbound

reflect_2d(point, axis) ==
  LET matrix == reflection_matrix_2d(axis)
  IN  IF matrix = Unbound THEN Raised("UnboundLocalError")
      ELSE Returned(MatVec(matrix, point))

\* a quarter turn in place of the mirror over y=-x
diagonal_matrix_turn(line) ==
  IF lower(line) = "y=x" THEN << <<0, 1, 0>>, <<1, 0, 0>>, <<0, 0, 1>> >>
  ELSE IF lower(line) = "y=-x" THEN << <<0, 0 - 1, 0>>, <<1, 0, 0>>, <<0, 0, 1>> >>
  ELSE Unbound
diagonal_matrix(line) ==
  IF lower(line) = "y=x" THEN << <<0, 1, 0>>, <<1, 0, 0>>, <<0, 0, 1>> >>
  ELSE IF lower(line) = "y=-x" THEN << <<0, 0 - 1, 0>>, <<0 - 1, 0, 0>>, <<0, 0, 1>> >>
  ELSE Unbound

reflect_2d_diagonal(point, line) ==
  LET matrix == diagonal_matrix(line)
  IN  IF matrix = Unbound THEN Raised("UnboundLocalError")
      ELSE Returned(MatVec(matrix, point))

\* the -1 written one column off the diagonal for the XY plane
reflection_matrix_3d_slip(plane) ==
  IF lower(plane) = "xy" THEN [eye(4) EXCEPT ![3][2] = 0 - 1]
  ELSE IF lower(plane) = "xz" THEN [eye(4) EXCEPT ![2][2] = 0 - 1]
  ELSE IF lower(plane) = "yz" THEN [eye(4) EXCEPT ![1][1] = 0 - 1]
  ELSE eye(4)
\* the plane name read as the axis to flip
reflection_matrix_3d_swapped(plane) ==
  IF lower(plane) = "xy" THEN [eye(4) EXCEPT ![1][1] = 0 - 1]
  ELSE IF lower(plane) = "xz" THEN [eye(4) EXCEPT ![2][2] = 0 - 1]
  ELSE IF lower(plane) = "yz" THEN [eye(4) EXCEPT ![3][3] = 0 - 1]
  ELSE eye(4)
\* `matrix` starts as the identity, so an unrecognised plane leaves it so
reflection_matrix_3d(plane) ==
  IF lower(plane) = "xy" THEN [eye(4) EXCEPT ![3][3] = 0 - 1]
  ELSE IF lower(plane) = "xz" THEN [eye(4) EXCEPT ![2][2] = 0 - 1]
  ELSE IF lower(plane) = "yz" THEN [eye(4) EXCEPT ![1][1] = 0 - 1]
  ELSE eye(4)

reflect_3d(point, plane) == Returned(MatVec(reflection_matrix_3d(plane), point))

\* ------------------------------------------------------- example runners
\* run_rotation_example: the hand-computed "Result" line
rotation_calc(x, y, z, degrees, axis) ==
  LET c == cos(degrees)
      s == sin(degrees)
  IN  CASE axis = "Z" -> <<x * c - y * s, x * s + y * c, z, 1>>
        [] axis = "X" -> <<x, y * c - z * s, y * s + z * c, 1>>
        [] axis = "Y" -> <<x * c + z * s, y, (0 - x) * s + z * c, 1>>

\* run_rotation_example: the "Actual" line; no branch assigns `rotated` and
\* `matrix` for an axis other than 'Z', 'X', 'Y' (compared case-sensitively)
rotation_actual(point, degrees, axis) ==
  CASE axis = "Z" -> Returned(rotate_3d_z(point, degrees))
    [] axis = "X" -> Returned(rotate_3d_x(point, degrees))
    [] axis = "Y" -> Returned(rotate_3d_y(point, degrees))
    [] OTHER -> Raised("UnboundLocalError")

\* run_scaling_example: the "Calculated" line
scaling_calc(x, y, z, sx, sy, sz) == <<x * sx, y * sy, z * sz, 1>>

\* run_2d_reflection_example: the matrix its three print lines spell out,
\* chosen by comparing the axis as given with 'x'
printed_matrix_2d(axis) ==
  << <<IF axis = "x" THEN 1 ELSE 0 - 1, 0, 0>>,
     <<0, IF axis = "x" THEN 0 - 1 ELSE 1, 0>>,
     <<0, 0, 1>> >>

\* run_diagonal_reflection_example: the matrix printed, chosen by comparing
\* the line as given with 'y=x'
printed_matrix_diagonal(line) ==
  IF line = "y=x" THEN << <<0, 1, 0>>, <<1, 0, 0>>, <<0, 0, 1>> >>
  ELSE << <<0, 0 - 1, 0>>, <<0 - 1, 0, 0>>, <<0, 0, 1>> >>

\* ------------------------------------------------------------------ state
VARIABLES
  point,   \* the homogeneous vector the caller holds
  call,    \* the last call: function, axis/plane/line name, numeric arguments
  ret,     \* what the last call produced
  shown,   \* what the last example runner printed: hand-computed and actual
           \* values, or the matrix and the actual value
  chain    \* a pipeline of calls, each result feeding the next

vars == <<point, call, ret, shown, chain>>

NoCall == [fn |-> "none", name |-> "", args |-> <<>>]
NoShow == [calc |-> <<>>, actual |-> <<>>]
Called(f, n, a) == [fn |-> f, name |-> n, args |-> a]

Init ==
  /\ point \in Points2 \cup Points3
  /\ call = NoCall
  /\ ret = Raised("none")
  /\ shown = NoShow
  /\ chain = [origin |-> point, ops |-> <<>>, results |-> <<>>]

\* the functions are pure: every behaviour makes one call on the point drawn
\* in Init
Fresh == call = NoCall

\* one call of a library function on the caller's point
Translate2D ==
  /\ Fresh /\ Len(point) = 3
  /\ \E tx \in Param, ty \in Param :
       /\ call' = Called("translate_2d", "", <<tx, ty>>)
       /\ ret' = Returned(translate_2d(point, tx, ty))
  /\ shown' = NoShow
  /\ UNCHANGED <<point, chain>>

Translate3D ==
  /\ Fresh /\ Len(point) = 4
  /\ \E tx \in Param, ty \in Param, tz \in Param :
       /\ call' = Called("translate_3d", "", <<tx, ty, tz>>)
       /\ ret' = Returned(translate_3d(point, tx, ty, tz))
  /\ shown' = NoShow
  /\ UNCHANGED <<point, chain>>

Scale3D ==
  /\ Fresh /\ Len(point) = 4
  /\ \E sx \in Param, sy \in Param, sz \in Param :
       /\ call' = Called("scale_3d", "", <<sx, sy, sz>>)
       /\ ret' = Returned(scale_3d(point, sx, sy, sz))
  /\ shown' = NoShow
  /\ UNCHANGED <<point, chain>>

RotateZ ==
  /\ Fresh /\ Len(point) = 4
  /\ \E degrees \in Degrees :
       /\ call' = Called("rotate_3d_z", "", <<degrees>>)
       /\ ret' = Returned(rotate_3d_z(point, degrees))
  /\ shown' = NoShow
  /\ UNCHANGED <<point, chain>>

RotateX ==
  /\ Fresh /\ Len(point) = 4
  /\ \E degrees \in Degrees :
       /\ call' = Called("rotate_3d_x", "", <<degrees>>)
       /\ ret' = Returned(rotate_3d_x(point, degrees))
  /\ shown' = NoShow
  /\ UNCHANGED <<point, chain>>

RotateY ==
  /\ Fresh /\ Len(point) = 4
  /\ \E degrees \in Degrees :
       /\ call' = Called("rotate_3d_y", "", <<degrees>>)
       /\ ret' = Returned(rotate_3d_y(point, degrees))
  /\ shown' = NoShow
  /\ UNCHANGED <<point, chain>>

Reflect2D ==
  /\ Fresh /\ Len(point) = 3
  /\ \E axis \in AxisNames :
       /\ call' = Called("reflect_2d", axis, <<>>)
       /\ ret' = reflect_2d(point, axis)
  /\ shown' = NoShow
  /\ UNCHANGED <<point, chain>>

Reflect2DDiagonal ==
  /\ Fresh /\ Len(point) = 3
  /\ \E line \in LineNames :
       /\ call' = Called("reflect_2d_diagonal", line, <<>>)
       /\ ret' = reflect_2d_diagonal(point, line)
  /\ shown' = NoShow
  /\ UNCHANGED <<point, chain>>

Reflect3D ==
  /\ Fresh /\ Len(point) = 4
  /\ \E plane \in PlaneNames :
       /\ call' = Called("reflect_3d", plane, <<>>)
       /\ ret' = reflect_3d(point, plane)
  /\ shown' = NoShow
  /\ UNCHANGED <<point, chain>>

\* run_rotation_example(x, y, z, degrees, axis), which builds the point
\* [x, y, z, 1] itself
RunRotationExample ==
  /\ Fresh /\ Len(point) = 4 /\ point[4] = 1
  /\ \E degrees \in Degrees, axis \in RotAxes :
       LET x == point[1]
           y == point[2]
           z == point[3]
           actual == rotation_actual(<<x, y, z, 1>>, degrees, axis)
       IN  /\ call' = Called("run_rotation_example", axis, <<degrees>>)
           /\ ret' = actual
           /\ shown' = IF actual.outcome = "returned"
                         THEN [calc |-> rotation_calc(x, y, z, degrees, axis),
                               actual |-> actual.value]
                         ELSE NoShow
  /\ UNCHANGED <<point, chain>>

\* run_scaling_example(x, y, z, sx, sy, sz), which builds the point
\* [x, y, z, 1] itself
RunScalingExample ==
  /\ Fresh /\ Len(point) = 4 /\ point[4] = 1
  /\ \E sx \in Param, sy \in Param, sz \in Param :
       LET x == point[1]
           y == point[2]
           z == point[3]
           scaled == scale_3d(<<x, y, z, 1>>, sx, sy, sz)
       IN  /\ call' = Called("run_scaling_example", "", <<sx, sy, sz>>)
           /\ ret' = Returned(scaled)
           /\ shown' = [calc |-> scaling_calc(x, y, z, sx, sy, sz), actual |-> scaled]
  /\ UNCHANGED <<point, chain>>

\* run_2d_reflection_example(x, y, axis), which builds the point [x, y, 1]
\* itself; reflect_2d is called before anything is printed
RunReflection2DExample ==
  /\ Fresh /\ Len(point) = 3 /\ point[3] = 1
  /\ \E axis \in AxisNames :
       LET reflected == reflect_2d(<<point[1], point[2], 1>>, axis)
       IN  /\ call' = Called("run_2d_reflection_example", axis, <<>>)
           /\ ret' = reflected
           /\ shown' = IF reflected.outcome = "returned"
                         THEN [calc |-> <<>>, actual |-> reflected.value,
                               matrix |-> printed_matrix_2d(axis)]
                         ELSE NoShow
  /\ UNCHANGED <<point, chain>>

\* run_diagonal_reflection_example(x, y, line), which builds the point
\* [x, y, 1] itself; reflect_2d_diagonal is called before anything is printed
RunDiagonalReflectionExample ==
  /\ Fresh /\ Len(point) = 3 /\ point[3] = 1
  /\ \E line \in LineNames :
       LET reflected == reflect_2d_diagonal(<<point[1], point[2], 1>>, line)
       IN  /\ call' = Called("run_diagonal_reflection_example", line, <<>>)
           /\ ret' = reflected
           /\ shown' = IF reflected.outcome = "returned"
                         THEN [calc |-> <<>>, actual |-> reflected.value,
                               matrix |-> printed_matrix_diagonal(line)]
                         ELSE NoShow
  /\ UNCHANGED <<point, chain>>

Next ==
  \/ Translate2D
  \/ Translate3D
  \/ Scale3D
  \/ RotateZ
  \/ RotateX
  \/ RotateY
  \/ Reflect2D
  \/ Reflect2DDiagonal
  \/ Reflect3D
  \/ RunRotationExample
  \/ RunScalingExample
  \/ RunReflection2DExample
  \/ RunDiagonalReflectionExample

Spec == Init /\ [][Next]_vars

\* --------------------------------------------------------------- pipeline
\* A caller feeds the result of one library call to the next, starting from
\* the point drawn in Init: opN(... op1(point)).
cur == IF chain.results = <<>> THEN chain.origin ELSE chain.results[Len(chain.results)]

Then(c, v) ==
  /\ Len(chain.ops) < MaxOps
  /\ chain' = [chain EXCEPT !.ops = Append(@, c), !.results = Append(@, v)]
  /\ UNCHANGED <<point, call, ret, shown>>

ThenTranslate2D ==
  /\ Len(cur) = 3
  /\ \E t \in PipeTranslations2 :
       Then(Called("translate_2d", "", t), translate_2d(cur, t[1], t[2]))

ThenTranslate3D ==
  /\ Len(cur) = 4
  /\ \E t \in PipeTranslations3 :
       Then(Called("translate_3d", "", t), translate_3d(cur, t[1], t[2], t[3]))

ThenScale3D ==
  /\ Len(cur) = 4
  /\ \E f \in PipeScalings :
       Then(Called("scale_3d", "", f), scale_3d(cur, f[1], f[2], f[3]))

ThenRotateZ ==
  /\ Len(cur) = 4
  /\ \E degrees \in PipeDegrees :
       Then(Called("rotate_3d_z", "", <<degrees>>), rotate_3d_z(cur, degrees))

ThenRotateX ==
  /\ Len(cur) = 4
  /\ \E degrees \in PipeDegrees :
       Then(Called("rotate_3d_x", "", <<degrees>>), rotate_3d_x(cur, degrees))

ThenRotateY ==
  /\ Len(cur) = 4
  /\ \E degrees \in PipeDegrees :
       Then(Called("rotate_3d_y", "", <<degrees>>), rotate_3d_y(cur, degrees))

ThenReflect2D ==
  /\ Len(cur) = 3
  /\ \E axis \in PipeAxes :
       /\ reflect_2d(cur, axis).outcome = "returned"
       /\ Then(Called("reflect_2d", axis, <<>>), reflect_2d(cur, axis).value)

ThenReflect2DDiagonal ==
  /\ Len(cur) = 3
  /\ \E line \in PipeLines :
       /\ reflect_2d_diagonal(cur, line).outcome = "returned"
       /\ Then(Called("reflect_2d_diagonal", line, <<>>),
               reflect_2d_diagonal(cur, line).value)

ThenReflect3D ==
  /\ Len(cur) = 4
  /\ \E plane \in PipePlanes :
       /\ reflect_3d(cur, plane).outcome = "returned"
       /\ Then(Called("reflect_3d", plane, <<>>), reflect_3d(cur, plane).value)

NextPipeline ==
  \/ ThenTranslate2D
  \/ ThenTranslate3D
  \/ ThenScale3D
  \/ ThenRotateZ
  \/ ThenRotateX
  \/ ThenRotateY
  \/ ThenReflect2D
  \/ ThenReflect2DDiagonal
  \/ ThenReflect3D

\* the pipelines start from the points and directions of the first orthant
InitPipeline ==
  /\ Init
  /\ \A i \in 1..Len(point) : point[i] >= 0

SpecPipeline == InitPipeline /\ [][NextPipeline]_vars

\* ================================================================== claims
Builders ==
  {"translate_2d", "translate_3d", "scale_3d", "reflect_2d", "reflect_2d_diagonal",
   "reflect_3d", "rotate_3d_x", "rotate_3d_y", "rotate_3d_z"}

Last(v) == v[Len(v)]

\* C1: whenever a builder returns a vector, that vector has the length of the
\* input and its last (homogeneous) component is the input's last component,
\* for points (1) and for directions (0).
C1_HomogeneousKept ==
  (call.fn \in Builders /\ ret.outcome = "returned") =>
    /\ Len(ret.value) = Len(point)
    /\ Last(ret.value) = Last(point)

\* a translation by a non-zero vector whose first component is non-zero, of a
\* point that is not the origin, has returned
C1_Witness ==
  /\ call.fn = "translate_3d"
  /\ call.args[1] # 0
  /\ point[1] # 0
  /\ point[4] = 1
  /\ ret.outcome = "returned"
  /\ ret.value[4] = 1

\* C2 (as claimed): reflect_3d with a plane name that is none of xy, xz, yz
\* (in any case) fails with an error and returns no point.
C2_UnknownPlaneFails ==
  (call.fn = "reflect_3d" /\ lower(call.name) \notin {"xy", "xz", "yz"}) =>
    /\ ret.outcome # "returned"
    /\ ret.value = <<>>

\* C3 (as claimed): reflect_2d with an axis other than x/y, and
\* reflect_2d_diagonal with a line other than y=x/y=-x (in any case), fail
\* with an InvalidParameter error and return no point.
C3_UnknownNameInvalidParameter ==
  (\/ call.fn = "reflect_2d" /\ lower(call.name) \notin {"x", "y"}
   \/ call.fn = "reflect_2d_diagonal" /\ lower(call.name) \notin {"y=x", "y=-x"}) =>
    /\ ret.outcome = "InvalidParameter"
    /\ ret.value = <<>>

\* C4: translate_2d maps the point [x, y, 1] to [x+tx, y+ty, 1] and
\* translate_3d maps [x, y, z, 1] to [x+tx, y+ty, z+tz, 1], so the result
\* minus the input is the translation vector extended with 0; a zero
\* translation returns the input, and a direction (last component 0) is
\* returned unchanged by every translation.
C4_Translation ==
  /\ (call.fn = "translate_2d" /\ point[3] = 1) =>
       /\ ret.value = <<point[1] + call.args[1], point[2] + call.args[2], 1>>
       /\ [i \in 1..3 |-> ret.value[i] - point[i]] = call.args \o <<0>>
  /\ (call.fn = "translate_3d" /\ point[4] = 1) =>
       /\ ret.value = <<point[1] + call.args[1], point[2] + call.args[2],
                        point[3] + call.args[3], 1>>
       /\ [i \in 1..4 |-> ret.value[i] - point[i]] = call.args \o <<0>>
  /\ (call.fn \in {"translate_2d", "translate_3d"}
        /\ \A i \in 1..Len(call.args) : call.args[i] = 0) => ret.value = point
  /\ (call.fn \in {"translate_2d", "translate_3d"} /\ Last(point) = 0) =>
       ret.value = point

\* a 2D point has been moved by a vector with both components non-zero
C4_Witness ==
  /\ call.fn = "translate_2d"
  /\ point[3] = 1
  /\ call.args[1] # 0 /\ call.args[2] # 0
  /\ ret.value # point

\* C5: with c = cos(angle), s = sin(angle), rotate_3d_z maps [x, y, z, w] to
\* [x*c - y*s, x*s + y*c, z, w], rotate_3d_x to [x, y*c - z*s, y*s + z*c, w]
\* and rotate_3d_y to [x*c + z*s, y, -x*s + z*c, w]; (1,0,0) turned by 90
\* degrees about Z is (0,1,0); and in run_rotation_example the hand-computed
\* "Result" is the "Actual" matrix product, for each axis.
C5_Rotation ==
  LET x == point[1]
      y == point[2]
      z == point[3]
      w == point[4]
      c == cos(call.args[1])
      s == sin(call.args[1])
  IN  /\ call.fn = "rotate_3d_z" =>
           ret.value = <<x * c - y * s, x * s + y * c, z, w>>
      /\ call.fn = "rotate_3d_x" =>
           ret.value = <<x, y * c - z * s, y * s + z * c, w>>
      /\ call.fn = "rotate_3d_y" =>
           ret.value = <<x * c + z * s, y, (0 - x) * s + z * c, w>>
      /\ (call.fn = "rotate_3d_z" /\ call.args = <<90>> /\ point = <<1, 0, 0, 1>>) =>
           ret.value = <<0, 1, 0, 1>>
      /\ (call.fn = "run_rotation_example" /\ ret.outcome = "returned") =>
           shown.calc = shown.actual

\* a quarter turn about Y of a point off the Y axis has returned
C5_Witness ==
  /\ call.fn = "rotate_3d_y"
  /\ call.args = <<90>>
  /\ point = <<1, 0, 0, 1>>
  /\ ret.value = <<0, 0, 0 - 1, 1>>

\* C6: reflect_2d over x maps [x, y, w] to [x, -y, w] and over y to
\* [-x, y, w]; reflect_3d over xy maps [x, y, z, w] to [x, y, -z, w], over xz
\* to [x, -y, z, w] and over yz to [-x, y, z, w] (names in any case).
C6_AxisReflection ==
  /\ (call.fn = "reflect_2d" /\ lower(call.name) = "x") =>
       ret = Returned(<<point[1], 0 - point[2], point[3]>>)
  /\ (call.fn = "reflect_2d" /\ lower(call.name) = "y") =>
       ret = Returned(<<0 - point[1], point[2], point[3]>>)
  /\ (call.fn = "reflect_3d" /\ lower(call.name) = "xy") =>
       ret = Returned(<<point[1], point[2], 0 - point[3], point[4]>>)
  /\ (call.fn = "reflect_3d" /\ lower(call.name) = "xz") =>
       ret = Returned(<<point[1], 0 - point[2], point[3], point[4]>>)
  /\ (call.fn = "reflect_3d" /\ lower(call.name) = "yz") =>
       ret = Returned(<<0 - point[1], point[2], point[3], point[4]>>)

\* a 3D point off the XY plane has been mirrored over it, the plane named in
\* upper case
C6_Witness ==
  /\ call.fn = "reflect_3d"
  /\ call.name = "XY"
  /\ point[3] # 0
  /\ ret.outcome = "returned"
  /\ ret.value[3] = 0 - point[3]

\* C7: reflect_2d_diagonal over y=x maps [x, y, w] to [y, x, w] and over
\* y=-x to [-y, -x, w] (names in any case).
C7_DiagonalReflection ==
  /\ (call.fn = "reflect_2d_diagonal" /\ lower(call.name) = "y=x") =>
       ret = Returned(<<point[2], point[1], point[3]>>)
  /\ (call.fn = "reflect_2d_diagonal" /\ lower(call.name) = "y=-x") =>
       ret = Returned(<<0 - point[2], 0 - point[1], point[3]>>)

\* a point with two different non-zero coordinates has been mirrored over y=-x
C7_Witness ==
  /\ call.fn = "reflect_2d_diagonal"
  /\ call.name = "y=-x"
  /\ point = <<0, 1, 1>>
  /\ ret = Returned(<<0 - 1, 0, 1>>)

\* C10: scale_3d returns [sx*x, sy*y, sz*z, w] for every factor, zero and
\* negative factors included, and never fails; the "Calculated" value of
\* run_scaling_example is the "Actual" matrix product.
C10_Scaling ==
  /\ call.fn = "scale_3d" =>
       ret = Returned(<<call.args[1] * point[1], call.args[2] * point[2],
                        call.args[3] * point[3], point[4]>>)
  /\ call.fn = "run_scaling_example" =>
       /\ ret.outcome = "returned"
       /\ shown.calc = shown.actual

\* a point with no zero coordinate has been scaled by a zero factor, a
\* negative factor below -1 and a factor above 1
C10_Witness ==
  /\ call.fn = "scale_3d"
  /\ call.args[1] = 0 /\ call.args[2] < 0 - 1 /\ call.args[3] > 1
  /\ point[1] # 0 /\ point[2] # 0 /\ point[3] # 0
  /\ ret.value[1] = 0
  /\ ret.value[2] = call.args[2] * point[2]

\* ------------------------------------------------- claims on the pipeline
\* the matrix a call builds
MatrixOf(c) ==
  CASE c.fn = "translate_2d" -> translation_matrix_2d(c.args[1], c.args[2])
    [] c.fn = "translate_3d" -> translation_matrix_3d(c.args[1], c.args[2], c.args[3])
    [] c.fn = "scale_3d" -> scaling_matrix(c.args[1], c.args[2], c.args[3])
    [] c.fn = "rotate_3d_z" -> rotation_matrix_z(c.args[1])
    [] c.fn = "rotate_3d_x" -> rotation_matrix_x(c.args[1])
    [] c.fn = "rotate_3d_y" -> rotation_matrix_y(c.args[1])
    [] c.fn = "reflect_2d" -> reflection_matrix_2d(c.name)
    [] c.fn = "reflect_2d_diagonal" -> diagonal_matrix(c.name)
    [] c.fn = "reflect_3d" -> reflection_matrix_3d(c.name)

\* the matrix product a . b, row by row
RECURSIVE RowTimesColumns(_, _, _)
RowTimesColumns(row, b, n) ==
  IF n = 0 THEN <<>>
  ELSE Append(RowTimesColumns(row, b, n - 1), DotUpTo(row, Column(b, n), Len(row)))

RECURSIVE MatMulUpTo(_, _, _)
MatMulUpTo(a, b, n) ==
  IF n = 0 THEN <<>>
  ELSE Append(MatMulUpTo(a, b, n - 1), RowTimesColumns(a[n], b, Len(b)))

MatMul(a, b) == MatMulUpTo(a, b, Len(a))

\* M_n . ... . M_1 for the first n calls of the pipeline
RECURSIVE ProductUpTo(_, _, _)
ProductUpTo(ops, n, dim) ==
  IF n = 0 THEN eye(dim)
  ELSE LET rest == ProductUpTo(ops, n - 1, dim)
       IN  MatMul(MatrixOf(ops[n]), rest)

\* the vector the k-th call of the pipeline was given
Before(k) == IF k = 1 THEN chain.origin ELSE chain.results[k - 1]

IsTranslate(c) == c.fn \in {"translate_2d", "translate_3d"}
IsReflect(c) == c.fn \in {"reflect_2d", "reflect_2d_diagonal", "reflect_3d"}

\* C8: the result of a pipeline op1, ..., opN on a point p is the matrix
\* product M_N . ... . M_1 applied to p; and a translation followed by
\* another operation gives that operation's transform of the translated
\* position.
C8_Composition ==
  LET n == Len(chain.ops)
      p == chain.origin
  IN  /\ n > 0 => cur = MatVec(ProductUpTo(chain.ops, n, Len(p)), p)
      /\ (n >= 2 /\ IsTranslate(chain.ops[1]) /\ Last(p) = 1) =>
           LET t == chain.ops[1].args
               moved == [i \in 1..Len(p) |-> IF i = Len(p) THEN 1 ELSE p[i] + t[i]]
           IN  chain.results[2] = MatVec(MatrixOf(chain.ops[2]), moved)

\* a point was translated and then turned about Z, and turning it first and
\* translating it then would have given another vector
C8_Witness ==
  /\ Len(chain.ops) = 2
  /\ chain.ops[1].fn = "translate_3d"
  /\ chain.ops[2].fn = "rotate_3d_z"
  /\ Last(chain.origin) = 1
  /\ LET t == chain.ops[1].args
         d == chain.ops[2].args[1]
     IN  cur # translate_3d(rotate_3d_z(chain.origin, d), t[1], t[2], t[3])

\* C9: whenever the same reflection (reflect_2d, reflect_2d_diagonal or
\* reflect_3d, with the same recognised name) is applied twice in a row, the
\* second result is the vector the first of the two calls was given.
C9_ReflectionInvolution ==
  \A k \in 2..Len(chain.ops) :
    (IsReflect(chain.ops[k]) /\ chain.ops[k] = chain.ops[k - 1]) =>
      chain.results[k] = Before(k - 1)

\* a point off both diagonals was mirrored twice over y=-x
C9_Witness ==
  /\ Len(chain.ops) = 2
  /\ chain.ops[1] = Called("reflect_2d_diagonal", "y=-x", <<>>)
  /\ chain.ops[2] = chain.ops[1]
  /\ chain.origin = <<0, 1, 1>>
  /\ chain.results = << <<0 - 1, 0, 1>>, <<0, 1, 1>> >>

\* the sum of two parameter vectors
VecSum(a, b) == [i \in 1..Len(a) |-> a[i] + b[i]]

\* one translation of the vector v, by the function that call c names
TranslateBy(c, v, t) ==
  IF c.fn = "translate_2d" THEN translate_2d(v, t[1], t[2])
  ELSE translate_3d(v, t[1], t[2], t[3])

\* C11: whenever a vector is translated by t1 and the result by t2 (both by
\* translate_2d, or both by translate_3d), the second result is the single
\* translation of that vector by t1+t2, and it is also what translating by
\* t2 first and by t1 then gives.
C11_TranslationAdditivity ==
  \A k \in 2..Len(chain.ops) :
    (IsTranslate(chain.ops[k]) /\ chain.ops[k].fn = chain.ops[k - 1].fn) =>
      LET p == Before(k - 1)
          t1 == chain.ops[k - 1].args
          t2 == chain.ops[k].args
      IN  /\ chain.results[k] = TranslateBy(chain.ops[k], p, VecSum(t1, t2))
          /\ chain.results[k] = TranslateBy(chain.ops[k], TranslateBy(chain.ops[k], p, t2), t1)

\* a 2D point was translated by (1,-1) and then by (5,5)
C11_Witness ==
  /\ Len(chain.ops) = 2
  /\ chain.ops[1] = Called("translate_2d", "", <<1, 0 - 1>>)
  /\ chain.ops[2] = Called("translate_2d", "", <<5, 5>>)
  /\ chain.origin = <<1, 1, 1>>
  /\ chain.results = << <<2, 0, 1>>, <<7, 5, 1>> >>

IsRotate(c) == c.fn \in {"rotate_3d_x", "rotate_3d_y", "rotate_3d_z"}

\* C12: whenever a vector is rotated by an angle and the result by the
\* opposite angle about the same axis (X, Y or Z), the second result is that
\* vector (angles are multiples of 90 degrees, with exact cosine and sine).
C12_RotationUndone ==
  \A k \in 2..Len(chain.ops) :
    (/\ IsRotate(chain.ops[k])
     /\ chain.ops[k].fn = chain.ops[k - 1].fn
     /\ chain.ops[k].args[1] = 0 - chain.ops[k - 1].args[1]) =>
      chain.results[k] = Before(k - 1)

\* a point off the X axis was turned by 90 degrees about X and then by -90
C12_Witness ==
  /\ Len(chain.ops) = 2
  /\ chain.ops[1] = Called("rotate_3d_x", "", <<90>>)
  /\ chain.ops[2] = Called("rotate_3d_x", "", <<0 - 90>>)
  /\ chain.origin = <<0, 1, 0, 1>>
  /\ chain.results = << <<0, 0, 1, 1>>, <<0, 1, 0, 1>> >>

\* ---------------------------------------- claims on the reflection runners
\* C13 (as claimed): whenever run_2d_reflection_example or
\* run_diagonal_reflection_example gets a result from its reflect function
\* (upper-case spellings of the axis or line included), the matrix it prints
\* is the matrix that was applied to the point.
C13_PrintedMatrixIsApplied ==
  /\ (call.fn = "run_2d_reflection_example" /\ ret.outcome = "returned") =>
       shown.matrix = reflection_matrix_2d(call.name)
  /\ (call.fn = "run_diagonal_reflection_example" /\ ret.outcome = "returned") =>
       shown.matrix = diagonal_matrix(call.name)

====
